---- MODULE Spec2Model ----
(***************************************************************************)
(* A model of app.py, the Streamlit page "TrustPilot AI Analyzer".         *)
(*                                                                         *)
(* Streamlit executes the script from top to bottom once per user          *)
(* interaction (a "rerun").  The model follows one browser session: the    *)
(* user's interactions with the widgets (language radio, example           *)
(* selectbox, text area, analyze button) each start a rerun, and a rerun   *)
(* steps through the script: load_model, the button handler,               *)
(* analyze_aspects (one loop iteration per step) and the result cards.     *)
(*                                                                         *)
(* Strings that the code inspects character by character (the review text, *)
(* which it strips, and the candidate labels, in which it searches for     *)
(* "not mentioned") are sequences of one-character strings.                *)
(***************************************************************************)
EXTENDS Integers, Sequences, FiniteSets, TLC

\* ------------------------------------------------------------ bounds

\* Longest text the user types into the text area.
MaxLen == 2
\* Number of deterministic classifiers (model weights) SpecDet chooses from.
NumModels == 3

\* ------------------------------------------------------------ helpers

Range(s) == { s[i] : i \in 1..Len(s) }

SP == <<" ">>

\* A dict literal whose last entry is missing.
Dict_dropLast(pairs) ==
  LET kept == SubSeq(pairs, 1, Len(pairs) - 1)
  IN  [ k \in { kept[i][1] : i \in 1..Len(kept) } |->
          kept[CHOOSE i \in 1..Len(kept) :
                 /\ kept[i][1] = k
                 /\ \A j \in (i+1)..Len(kept) : kept[j][1] # k][2] ]

\* A Python dict literal (the mappings of lines 40-45, 49-54, ...): a
\* function from the keys to the values, the last pair of a repeated key
\* winning.
Dict(pairs) ==
  [ k \in { pairs[i][1] : i \in 1..Len(pairs) } |->
      pairs[CHOOSE i \in 1..Len(pairs) :
              /\ pairs[i][1] = k
              /\ \A j \in (i+1)..Len(pairs) : pairs[j][1] # k][2] ]

\* ------------------------------------------------------------ CONFIG

\* The words of the candidate labels of CONFIG.  (The icons of the mappings,
\* emoji in the source, are written by name: check, cross, circle, dash.)
W ==
  [ satisfied |-> <<"s", "a", "t", "i", "s", "f", "i", "e", "d">>,
    with |-> <<"w", "i", "t", "h">>,
    delivery |-> <<"d", "e", "l", "i", "v", "e", "r", "y">>,
    dissatisfied |-> <<"d", "i", "s", "s", "a", "t", "i", "s", "f", "i", "e", "d">>,
    neutral |-> <<"n", "e", "u", "t", "r", "a", "l">>,
    about |-> <<"a", "b", "o", "u", "t">>,
    not |-> <<"n", "o", "t">>,
    mentioned |-> <<"m", "e", "n", "t", "i", "o", "n", "e", "d">>,
    customer |-> <<"c", "u", "s", "t", "o", "m", "e", "r">>,
    service |-> <<"s", "e", "r", "v", "i", "c", "e">>,
    product |-> <<"p", "r", "o", "d", "u", "c", "t">>,
    satisfait |-> <<"s", "a", "t", "i", "s", "f", "a", "i", "t">>,
    de |-> <<"d", "e">>,
    la |-> <<"l", "a">>,
    livraison |-> <<"l", "i", "v", "r", "a", "i", "s", "o", "n">>,
    insatisfait |-> <<"i", "n", "s", "a", "t", "i", "s", "f", "a", "i", "t">>,
    neutre |-> <<"n", "e", "u", "t", "r", "e">>,
    sur |-> <<"s", "u", "r">>,
    non |-> <<"n", "o", "n">>,
    mentionnee |-> <<"m", "e", "n", "t", "i", "o", "n", "n", "é", "e">>,
    du |-> <<"d", "u">>,
    client |-> <<"c", "l", "i", "e", "n", "t">>,
    le |-> <<"l", "e">>,
    mentionne |-> <<"m", "e", "n", "t", "i", "o", "n", "n", "é">>,
    produit |-> <<"p", "r", "o", "d", "u", "i", "t">> ]

\* CONFIG["English"]["aspects"]["Delivery"], lines 38-46
En_Delivery ==
  [ labels  |-> << W.satisfied \o SP \o W.with \o SP \o W.delivery,
                 W.dissatisfied \o SP \o W.with \o SP \o W.delivery,
                 W.neutral \o SP \o W.about \o SP \o W.delivery,
                 W.delivery \o SP \o W.not \o SP \o W.mentioned >>,
    mapping |-> Dict(<< << W.satisfied \o SP \o W.with \o SP \o W.delivery,
                           << "Positive", "check", "green" >> >>,
                        << W.dissatisfied \o SP \o W.with \o SP \o W.delivery,
                           << "Negative", "cross", "red" >> >>,
                        << W.neutral \o SP \o W.about \o SP \o W.delivery,
                           << "Neutral", "circle", "grey" >> >>,
                        << W.delivery \o SP \o W.not \o SP \o W.mentioned,
                           << "Not Detected", "dash", "lightgrey" >> >> >>) ]

\* CONFIG["English"]["aspects"]["Customer Service"], lines 47-55
En_CustomerService ==
  [ labels  |-> << W.satisfied \o SP \o W.with \o SP \o W.customer \o SP \o W.service,
                 W.dissatisfied \o SP \o W.with \o SP \o W.customer \o SP \o W.service,
                 W.neutral \o SP \o W.about \o SP \o W.customer \o SP \o W.service,
                 W.customer \o SP \o W.service \o SP \o W.not \o SP \o W.mentioned >>,
    mapping |-> Dict(<< << W.satisfied \o SP \o W.with \o SP \o W.customer \o SP \o W.service,
                           << "Positive", "check", "green" >> >>,
                        << W.dissatisfied \o SP \o W.with \o SP \o W.customer \o SP \o W.service,
                           << "Negative", "cross", "red" >> >>,
                        << W.neutral \o SP \o W.about \o SP \o W.customer \o SP \o W.service,
                           << "Neutral", "circle", "grey" >> >>,
                        << W.customer \o SP \o W.service \o SP \o W.not \o SP \o W.mentioned,
                           << "Not Detected", "dash", "lightgrey" >> >> >>) ]

\* CONFIG["English"]["aspects"]["Product"], lines 56-64
En_Product ==
  [ labels  |-> << W.satisfied \o SP \o W.with \o SP \o W.product,
                 W.dissatisfied \o SP \o W.with \o SP \o W.product,
                 W.neutral \o SP \o W.about \o SP \o W.product,
                 W.product \o SP \o W.not \o SP \o W.mentioned >>,
    mapping |-> Dict(<< << W.satisfied \o SP \o W.with \o SP \o W.product,
                           << "Positive", "check", "green" >> >>,
                        << W.dissatisfied \o SP \o W.with \o SP \o W.product,
                           << "Negative", "cross", "red" >> >>,
                        << W.neutral \o SP \o W.about \o SP \o W.product,
                           << "Neutral", "circle", "grey" >> >>,
                        << W.product \o SP \o W.not \o SP \o W.mentioned,
                           << "Not Detected", "dash", "lightgrey" >> >> >>) ]

\* CONFIG["Français"]["aspects"]["Livraison"], lines 81-89
Fr_Livraison ==
  [ labels  |-> << W.satisfait \o SP \o W.de \o SP \o W.la \o SP \o W.livraison,
                 W.insatisfait \o SP \o W.de \o SP \o W.la \o SP \o W.livraison,
                 W.neutre \o SP \o W.sur \o SP \o W.la \o SP \o W.livraison,
                 W.livraison \o SP \o W.non \o SP \o W.mentionnee >>,
    mapping |-> Dict(<< << W.satisfait \o SP \o W.de \o SP \o W.la \o SP \o W.livraison,
                           << "Positif", "check", "green" >> >>,
                        << W.insatisfait \o SP \o W.de \o SP \o W.la \o SP \o W.livraison,
                           << "Négatif", "cross", "red" >> >>,
                        << W.neutre \o SP \o W.sur \o SP \o W.la \o SP \o W.livraison,
                           << "Neutre", "circle", "grey" >> >>,
                        << W.livraison \o SP \o W.non \o SP \o W.mentionnee,
                           << "Non Détecté", "dash", "lightgrey" >> >> >>) ]

\* CONFIG["Français"]["aspects"]["Service Client"], lines 90-98
Fr_ServiceClient ==
  [ labels  |-> << W.satisfait \o SP \o W.du \o SP \o W.service \o SP \o W.client,
                 W.insatisfait \o SP \o W.du \o SP \o W.service \o SP \o W.client,
                 W.neutre \o SP \o W.sur \o SP \o W.le \o SP \o W.service \o SP \o W.client,
                 W.service \o SP \o W.client \o SP \o W.non \o SP \o W.mentionne >>,
    mapping |-> Dict(<< << W.satisfait \o SP \o W.du \o SP \o W.service \o SP \o W.client,
                           << "Positif", "check", "green" >> >>,
                        << W.insatisfait \o SP \o W.du \o SP \o W.service \o SP \o W.client,
                           << "Négatif", "cross", "red" >> >>,
                        << W.neutre \o SP \o W.sur \o SP \o W.le \o SP \o W.service \o SP \o W.client,
                           << "Neutre", "circle", "grey" >> >>,
                        << W.service \o SP \o W.client \o SP \o W.non \o SP \o W.mentionne,
                           << "Non Détecté", "dash", "lightgrey" >> >> >>) ]

\* CONFIG["Français"]["aspects"]["Produit"], lines 99-107
Fr_Produit ==
  [ labels  |-> << W.satisfait \o SP \o W.du \o SP \o W.produit,
                 W.insatisfait \o SP \o W.du \o SP \o W.produit,
                 W.neutre \o SP \o W.sur \o SP \o W.le \o SP \o W.produit,
                 W.produit \o SP \o W.non \o SP \o W.mentionne >>,
    mapping |-> Dict(<< << W.satisfait \o SP \o W.du \o SP \o W.produit,
                           << "Positif", "check", "green" >> >>,
                        << W.insatisfait \o SP \o W.du \o SP \o W.produit,
                           << "Négatif", "cross", "red" >> >>,
                        << W.neutre \o SP \o W.sur \o SP \o W.le \o SP \o W.produit,
                           << "Neutre", "circle", "grey" >> >>,
                        << W.produit \o SP \o W.non \o SP \o W.mentionne,
                           << "Non Détecté", "dash", "lightgrey" >> >> >>) ]

\* CONFIG, lines 29-116: per language, the aspects in the order of the dict
\* literal (a Python dict iterates in insertion order), the examples and the
\* text-area label.  An example is kept as its first word: the script only
\* strips it and hands it to the classifier.
CONFIG ==
  ("English" :>
     [ input_label |-> "Paste a customer review:",
       aspects  |-> << << "Delivery", En_Delivery >>,
                       << "Customer Service", En_CustomerService >>,
                       << "Product", En_Product >> >>,
       examples |-> << <<"T", "h", "e">>,
                       <<"C", "u", "s", "t", "o", "m", "e", "r">>,
                       <<"I">>,
                       <<"I", "t", "'", "s">> >> ]) @@
  ("Français" :>
     [ input_label |-> "Collez un avis client :",
       aspects  |-> << << "Livraison", Fr_Livraison >>,
                       << "Service Client", Fr_ServiceClient >>,
                       << "Produit", Fr_Produit >> >>,
       examples |-> << <<"L", "a">>,
                       <<"L", "e">>,
                       <<"J", "e">>,
                       <<"C", "'", "e", "s", "t">> >> ])

\* The options of the language radio, line 120.
Langs == << "English", "Français" >>

\* ------------------------------------------------------------ strings

\* Python's str.isspace for one character.
IsSpace(c) == c \in { " ", "\t", "\n", "\r" }

RECURSIVE LStrip(_)
LStrip(s) == IF s # <<>> /\ IsSpace(Head(s)) THEN LStrip(Tail(s)) ELSE s

RECURSIVE RStrip(_)
RStrip(s) ==
  IF s # <<>> /\ IsSpace(s[Len(s)]) THEN RStrip(SubSeq(s, 1, Len(s) - 1)) ELSE s

\* str.strip(): leading and trailing whitespace removed.
Strip(s) == RStrip(LStrip(s))

\* Python's `sub in s` on strings.
Contains(s, sub) ==
  \E i \in 1..(Len(s) - Len(sub) + 1) : SubSeq(s, i, i + Len(sub) - 1) = sub

\* `not input_text`: the test without the strip.
IsBlank_noStrip(text) == text = <<>>

\* `not input_text.strip()`, line 192.
IsBlank(text) == Strip(text) = <<>>

\* ------------------------------------------------------------ dicts

\* A store that puts a new key first.
DictSet_prepend(d, k, v) ==
  IF \E i \in 1..Len(d) : d[i][1] = k
    THEN [ i \in 1..Len(d) |-> IF d[i][1] = k THEN << k, v >> ELSE d[i] ]
    ELSE << << k, v >> >> \o d

\* results[aspect_name] = {...}, line 157: a dict keeps insertion order; an
\* assignment to a key it holds replaces the value in place.
DictSet(d, k, v) ==
  IF \E i \in 1..Len(d) : d[i][1] = k
    THEN [ i \in 1..Len(d) |-> IF d[i][1] = k THEN << k, v >> ELSE d[i] ]
    ELSE Append(d, << k, v >>)

\* The outcome of a failed dict lookup.
KeyError == << "KeyError" >>

\* mapping.get(top_label, default): an unknown label coerced to a verdict.
Resolve_default(mapping, top_label) ==
  IF top_label \in DOMAIN mapping
    THEN mapping[top_label]
    ELSE << "Not Detected", "dash", "lightgrey" >>

\* aspect_data["mapping"][top_label], line 155.
Resolve(mapping, top_label) ==
  IF top_label \in DOMAIN mapping THEN mapping[top_label] ELSE KeyError

\* The test for the English sentinel alone.
IsDetected_english(top_label) ==
  ~ Contains(top_label, W.not \o SP \o W.mentioned)

\* The is_detected expression, line 163.
IsDetected(top_label) ==
  /\ ~ Contains(top_label, W.not \o SP \o W.mentioned)
  /\ ~ Contains(top_label, W.non \o SP \o W.mentionnee)
  /\ ~ Contains(top_label, W.non \o SP \o W.mentionne)

\* output["scores"][-1]: the lowest score.
TopScore_last(output) == output.scores[Len(output.scores)]

\* top_score = output["scores"][0], line 152.
TopScore(output) == output.scores[1]

\* top_label = output["labels"][0], line 151.
TopLabel(output) == output.labels[1]

\* The dict stored for one aspect, lines 157-164.
AspectResult(output, verdict) ==
  [ label       |-> TopLabel(output),
    score       |-> TopScore(output),
    sentiment   |-> verdict[1],
    icon        |-> verdict[2],
    color       |-> verdict[3],
    is_detected |-> IsDetected(TopLabel(output)) ]

\* One result card, lines 208-226.
Card(aspect_name, data) ==
  [ title      |-> aspect_name,
    icon       |-> data.icon,
    sentiment  |-> data.sentiment,
    confidence |-> data.score,
    opacity    |-> IF data.is_detected THEN "1.0" ELSE "0.5",
    border     |-> IF data.is_detected THEN data.color ELSE "dashed grey" ]

\* ------------------------------------------------------------ classifier

\* A label outside every candidate list.
ForeignLabel == << "o", "t", "h", "e", "r" >>

\* The scores the classifier gives its top label: a low and a high one (a
\* float in the code; the script only copies it).  The other labels of an
\* output score 0, below both.
Scores == { 1, 2 }

\* The value the pipeline returns: the labels ranked by score, the top one
\* first (multi_label=False: the scores of the others are lower).
Ranked(candidate_labels, top, s) ==
  [ raised |-> FALSE,
    labels |-> << top >> \o SelectSeq(candidate_labels, LAMBDA l : l # top),
    scores |-> << s >> \o
               [ i \in 1..Cardinality(Range(candidate_labels) \ { top }) |-> 0 ] ]

\* The call raising instead of returning.
Raised == [ raised |-> TRUE, labels |-> <<>>, scores |-> <<>> ]

\* Everything a call classifier(text, candidate_labels, multi_label=False)
\* of line 148 can do when nothing is known about the model.
AnyOutput(candidate_labels) ==
  { Ranked(candidate_labels, top, s) :
      top \in Range(candidate_labels) \cup { ForeignLabel }, s \in Scores }
  \cup { Raised }

RECURSIVE TextCode(_)
TextCode(text) ==
  IF text = <<>> THEN 0
  ELSE Len(text) * (IF IsSpace(text[Len(text)]) THEN 1 ELSE 2)
       + TextCode(SubSeq(text, 1, Len(text) - 1))

\* The deterministic classifier with weights m: what it does is a function
\* of its arguments (text, candidate_labels) alone.
DetOutput(m, text, candidate_labels) ==
  LET n == m + TextCode(text) + Len(candidate_labels[1])
      k == n % (Len(candidate_labels) + 2)
      s == IF (n \div (Len(candidate_labels) + 2)) % 2 = 0 THEN 1 ELSE 2
  IN  { IF k < Len(candidate_labels)
          THEN Ranked(candidate_labels, candidate_labels[k + 1], s)
          ELSE IF k = Len(candidate_labels)
            THEN Ranked(candidate_labels, ForeignLabel, s)
            ELSE Raised }

\* ------------------------------------------------------------ state

VARIABLES
  lang,              \* selected_lang_code: the language radio (line 120)
  selected_example,  \* the selectbox: 0 is "Select...", k the k-th example
  input_text,        \* the text area's content (line 176)
  button,            \* st.button's value in this rerun (line 191)
  cache,             \* st.cache_resource's entry for load_model: 0 is empty,
                     \* else the pipeline instance it holds
  constructed,       \* pipeline instances constructed so far, numbered 1, 2, ...
  classifier,        \* the script's global `classifier` (0: not bound)
  pc,                \* where the rerun is in the script
  acc,               \* analyze_aspects' local `results`
  idx,               \* position of the loop of line 142 in config["aspects"]
  results,           \* the script's global `results` of line 197
  returned,          \* analyze_aspects returned in this rerun
  outputs,           \* what the classifier returned in this rerun, call by call
  calls,             \* classifier invocations in this rerun
  used,              \* the pipeline instances ever invoked
  cards,             \* the result cards rendered in this rerun
  warning,           \* st.warning of line 193 shown in this rerun
  load_error,        \* st.error of line 133 shown in this rerun
  exception,         \* the exception that ended this rerun's script, or "none"
  model,             \* the classifier's weights: 0 when nothing is assumed of it
  tracked,           \* the (language, text) whose analyses are compared
  first,             \* what the first completed analysis of `tracked` returned
  runs,              \* completed analyses of `tracked` (counted up to 2)
  between            \* after the first of them: another analysis completed,
                     \* or the language was switched

vars == << lang, selected_example, input_text, button, cache, constructed,
           classifier, pc, acc, idx, results, returned, outputs, calls, used,
           cards, warning, load_error, exception, model, tracked,
           first, runs, between >>

widgets == << lang, selected_example, input_text, button >>
\* What the model records about the classifier and the analyses so far:
\* no statement of the script reads it, except `model` in the classifier.
history == << model, tracked, first, runs, between >>

\* lang_config = CONFIG[selected_lang_code], line 121.
lang_config == CONFIG[lang]

Aspects == lang_config.aspects

\* The texts a user types.
TypedChars == { " ", "a" }
TypedTexts == UNION { [ 1..n -> TypedChars ] : n \in 0..MaxLen }

NoKey == <<>>
Key == << lang, input_text >>

\* ------------------------------------------------------------ reruns

\* The script has run to its end, was stopped by st.stop(), or was ended by
\* an exception: the page waits for the user.
Idle == pc \in { "end", "stopped", "crashed" }

\* A rerun starts the script over: its globals are those of a fresh module.
StartRun ==
  /\ pc' = "load"
  /\ classifier' = 0
  /\ acc' = <<>>
  /\ idx' = 0
  /\ results' = <<>>
  /\ returned' = FALSE
  /\ outputs' = <<>>
  /\ calls' = 0
  /\ cards' = <<>>
  /\ warning' = FALSE
  /\ load_error' = FALSE
  /\ exception' = "none"
  /\ UNCHANGED << cache, constructed, used, model, tracked, first, runs >>

\* The radio of line 120.  The selectbox's options and the text area's label
\* are the new language's, so both widgets are new ones, at their defaults.
SelectLanguage(l) ==
  /\ Idle
  /\ l # lang
  /\ lang' = l
  /\ selected_example' = 0
  /\ input_text' = <<>>
  /\ button' = FALSE
  /\ between' = (between \/ runs = 1)
  /\ StartRun

\* The selectbox of line 175.  The text area's value= changes with it
\* (line 178), which makes it a new widget holding that value.
SelectExample(k) ==
  /\ Idle
  /\ k # selected_example
  /\ selected_example' = k
  /\ input_text' = IF k = 0 THEN <<>> ELSE lang_config.examples[k]
  /\ button' = FALSE
  /\ UNCHANGED << lang, between >>
  /\ StartRun

\* The text area of line 176.
TypeText(t) ==
  /\ Idle
  /\ t # input_text
  /\ input_text' = t
  /\ button' = FALSE
  /\ UNCHANGED << lang, selected_example, between >>
  /\ StartRun

\* The button of line 191: True in the rerun its press starts.
PressAnalyze ==
  /\ Idle
  /\ button' = TRUE
  /\ UNCHANGED << lang, selected_example, input_text, between >>
  /\ StartRun

\* ------------------------------------------------------------ load_model

\* load_model without its cache.
CacheHit_never == FALSE

\* @st.cache_resource, line 124: the call is answered from the cache when
\* the cache holds the function's value.
CacheHit == cache # 0

\* classifier = load_model(), line 131, answered from the cache.
LoadModelCached ==
  /\ pc = "load"
  /\ CacheHit
  /\ classifier' = cache
  /\ pc' = "main"
  /\ UNCHANGED << widgets, history, cache, constructed, acc, idx, results,
                  returned, outputs, calls, used, cards, warning, load_error,
                  exception >>

\* load_model's body runs (line 127) and returns a new pipeline, which the
\* cache keeps.
LoadModelConstruct ==
  /\ pc = "load"
  /\ ~ CacheHit
  /\ constructed' = constructed + 1
  /\ cache' = constructed + 1
  /\ classifier' = constructed + 1
  /\ pc' = "main"
  /\ UNCHANGED << widgets, history, acc, idx, results, returned, outputs,
                  calls, used, cards, warning, load_error, exception >>

\* The except branch without st.stop(): the script goes on.
AfterLoadError_continue == "main"

\* After st.error, line 134: st.stop() ends the rerun.
AfterLoadError == "stopped"

\* load_model's body raises: nothing is cached, and lines 132-134 report
\* the error and stop the script.
LoadModelFail ==
  /\ pc = "load"
  /\ ~ CacheHit
  /\ load_error' = TRUE
  /\ pc' = AfterLoadError
  /\ UNCHANGED << widgets, history, cache, constructed, classifier, acc, idx,
                  results, returned, outputs, calls, used, cards, warning,
                  exception >>

\* ------------------------------------------------------------ main UI

\* Line 191: the button was not pressed; the script ends.
NoPress ==
  /\ pc = "main"
  /\ ~ button
  /\ pc' = "end"
  /\ UNCHANGED << widgets, history, cache, constructed, classifier, acc, idx,
                  results, returned, outputs, calls, used, cards, warning,
                  load_error, exception >>

\* Lines 192-193.
RejectBlank ==
  /\ pc = "main"
  /\ button
  /\ IsBlank(input_text)
  /\ warning' = TRUE
  /\ pc' = "end"
  /\ UNCHANGED << widgets, history, cache, constructed, classifier, acc, idx,
                  results, returned, outputs, calls, used, cards, load_error,
                  exception >>

\* analyze_aspects(selected_example, ...): the selectbox's example
\* analysed instead of the text area's content.
AnalyzedText_example ==
  IF selected_example # 0 THEN lang_config.examples[selected_example]
  ELSE input_text

\* The text handed to analyze_aspects, line 197.
AnalyzedText == input_text

\* Lines 194-197 and 138: analyze_aspects is entered, results = {}.
EnterAnalyze ==
  /\ pc = "main"
  /\ button
  /\ ~ IsBlank(input_text)
  /\ acc' = <<>>
  /\ idx' = 1
  /\ pc' = "loop"
  /\ UNCHANGED << widgets, history, cache, constructed, classifier, results,
                  returned, outputs, calls, used, cards, warning, load_error,
                  exception >>

\* ------------------------------------------------------------ analyze_aspects

\* What the call of line 148 can return or raise.
ClassifierOutputs(text, candidate_labels) ==
  IF model = 0 THEN AnyOutput(candidate_labels)
  ELSE DetOutput(model, text, candidate_labels)

InLoop == pc = "loop" /\ idx <= Len(Aspects)

\* An exception leaves analyze_aspects and the script: nothing catches it.
Raise(e) ==
  /\ exception' = e
  /\ pc' = "crashed"
  /\ acc' = <<>>
  /\ UNCHANGED << results, returned, cards, idx >>

\* Line 148 raises.
ClassifierRaises ==
  /\ InLoop
  /\ Raised \in ClassifierOutputs(AnalyzedText, Aspects[idx][2].labels)
  /\ calls' = calls + 1
  /\ used' = used \cup { classifier }
  /\ Raise("InferenceError")
  /\ UNCHANGED << widgets, history, cache, constructed, classifier, outputs,
                  warning, load_error >>

\* Lines 148-155: the classifier returns, and the lookup of its top label
\* in the aspect's mapping raises KeyError.
LookupFails ==
  /\ InLoop
  /\ \E output \in ClassifierOutputs(AnalyzedText, Aspects[idx][2].labels) :
       /\ ~ output.raised
       /\ Resolve(Aspects[idx][2].mapping, TopLabel(output)) = KeyError
       /\ outputs' = Append(outputs, output)
  /\ calls' = calls + 1
  /\ used' = used \cup { classifier }
  /\ Raise("KeyError")
  /\ UNCHANGED << widgets, history, cache, constructed, classifier, warning,
                  load_error >>

\* Lines 142-164: one iteration of the loop that stores the aspect's result.
ClassifyAspect ==
  /\ InLoop
  /\ \E output \in ClassifierOutputs(AnalyzedText, Aspects[idx][2].labels) :
       LET verdict == Resolve(Aspects[idx][2].mapping, TopLabel(output))
       IN  /\ ~ output.raised
           /\ verdict # KeyError
           /\ outputs' = Append(outputs, output)
           /\ acc' = DictSet(acc, Aspects[idx][1], AspectResult(output, verdict))
  /\ calls' = calls + 1
  /\ used' = used \cup { classifier }
  /\ idx' = idx + 1
  /\ UNCHANGED << widgets, history, cache, constructed, classifier, pc,
                  results, returned, cards, warning, load_error, exception >>

\* Line 166 and the assignment of line 197.
Return ==
  /\ pc = "loop"
  /\ idx > Len(Aspects)
  /\ results' = acc
  /\ returned' = TRUE
  /\ acc' = <<>>
  /\ pc' = "display"
  /\ first' = IF Key = tracked /\ runs = 0 THEN acc ELSE first
  /\ runs' = IF Key = tracked /\ runs < 2 THEN runs + 1 ELSE runs
  /\ between' = (between \/ (Key # tracked /\ runs = 1))
  /\ UNCHANGED << widgets, model, tracked, cache, constructed, classifier, idx,
                  outputs, calls, used, cards, warning, load_error, exception >>

\* Lines 200-230: one card per item of results, in results' order.
Display ==
  /\ pc = "display"
  /\ cards' = [ i \in 1..Len(results) |-> Card(results[i][1], results[i][2]) ]
  /\ pc' = "end"
  /\ UNCHANGED << widgets, history, cache, constructed, classifier, acc, idx,
                  results, returned, outputs, calls, used, warning, load_error,
                  exception >>

\* ------------------------------------------------------------ specifications

\* The session's first run of the script: the widgets at their defaults,
\* the resource cache empty.
InitSession ==
  /\ lang = Langs[1]
  /\ selected_example = 0
  /\ input_text = <<>>
  /\ button = FALSE
  /\ cache = 0
  /\ constructed = 0
  /\ classifier = 0
  /\ pc = "load"
  /\ acc = <<>>
  /\ idx = 0
  /\ results = <<>>
  /\ returned = FALSE
  /\ outputs = <<>>
  /\ calls = 0
  /\ used = {}
  /\ cards = <<>>
  /\ warning = FALSE
  /\ load_error = FALSE
  /\ exception = "none"
  /\ first = <<>>
  /\ runs = 0
  /\ between = FALSE

\* Nothing is assumed of the classifier.
Init ==
  /\ InitSession
  /\ model = 0
  /\ tracked = NoKey

\* The classifier is deterministic, and the analyses of one (language,
\* text) are compared.
InitDet ==
  /\ InitSession
  /\ model \in 1..NumModels
  /\ tracked \in { << l, t >> : l \in Range(Langs),
                   t \in { u \in TypedTexts : ~ IsBlank(u) } }

Next ==
  \/ \E l \in Range(Langs) : SelectLanguage(l)
  \/ \E k \in 0..Len(lang_config.examples) : SelectExample(k)
  \/ \E t \in TypedTexts : TypeText(t)
  \/ PressAnalyze
  \/ LoadModelCached
  \/ LoadModelConstruct
  \/ LoadModelFail
  \/ NoPress
  \/ RejectBlank
  \/ EnterAnalyze
  \/ ClassifierRaises
  \/ LookupFails
  \/ ClassifyAspect
  \/ Return
  \/ Display

Spec == Init /\ [][Next]_vars

SpecDet == InitDet /\ [][Next]_vars


\* ------------------------------------------------------------ claims

\* A text that is empty or made of whitespace only.
WhitespaceOnly(text) == \A i \in 1..Len(text) : IsSpace(text[i])

\* The per-aspect results of the analysis in progress or just returned.
Res == IF returned THEN results ELSE acc

\* The "not mentioned" candidate of an aspect: the last of its labels.
Sentinel(aspect_data) == aspect_data.labels[Len(aspect_data.labels)]

\* Python's None.
None == "None"

\* C1: when the analyze button is pressed with empty or whitespace-only
\* text, the handler shows the validation warning and the classifier is
\* never invoked (analyze_aspects is not entered); the classifier is only
\* invoked for text whose stripped form is non-empty.
C1_BlankInputRejected ==
  /\ (button /\ WhitespaceOnly(input_text)) =>
       /\ calls = 0
       /\ pc \notin { "loop", "display", "crashed" }
       /\ ~ returned
       /\ cards = <<>>
       /\ pc = "end" => warning
  /\ calls > 0 => Strip(input_text) # <<>>
  /\ warning => WhitespaceOnly(input_text)

\* A press with a non-empty text of whitespace was answered by the warning.
C1_Witness ==
  /\ pc = "end"
  /\ button
  /\ input_text # <<>>
  /\ WhitespaceOnly(input_text)
  /\ warning
  /\ calls = 0

\* The themes of each language, in the order of the contract.
ExpectedThemes ==
  IF lang = "English" THEN << "Delivery", "Customer Service", "Product" >>
  ELSE << "Livraison", "Service Client", "Produit" >>

\* C2: a completed analyze_aspects call returns exactly one result per
\* theme of the selected language, three in all, in the order Delivery,
\* Customer Service, Product (Livraison, Service Client, Produit), whatever
\* the classifier returned; the cards are rendered in that order.
C2_OneResultPerThemeInOrder ==
  returned =>
    /\ Len(results) = 3
    /\ [ i \in 1..Len(results) |-> results[i][1] ] = ExpectedThemes
    /\ pc = "end" => [ i \in 1..Len(cards) |-> cards[i].title ] = ExpectedThemes

\* A completed French analysis with a theme detected and a theme not.
C2_Witness ==
  /\ returned
  /\ pc = "end"
  /\ lang = "Français"
  /\ \E i \in 1..Len(results) : results[i][2].is_detected
  /\ \E i \in 1..Len(results) : ~ results[i][2].is_detected

\* C3 as stated: a theme whose top label is its "not mentioned" label has
\* detected = false and sentiment = None.
C3_SentimentIsNone ==
  \A i \in 1..Len(Res) :
    Res[i][2].label = Sentinel(Aspects[i][2]) =>
      /\ ~ Res[i][2].is_detected
      /\ Res[i][2].sentiment = None

\* C3 as amended: a theme whose top label is its "not mentioned" label has
\* is_detected = false and the placeholder text "Not Detected" ("Non
\* Détecté" in French) as its sentiment, never Positive, Negative or
\* Neutral (nor their French forms).
C3_NotMentionedIsNotDetected ==
  \A i \in 1..Len(Res) :
    Res[i][2].label = Sentinel(Aspects[i][2]) =>
      /\ ~ Res[i][2].is_detected
      /\ Res[i][2].sentiment =
           (IF lang = "English" THEN "Not Detected" ELSE "Non Détecté")

\* A returned French analysis with the masculine and the feminine "non
\* mentionné(e)" labels among its top labels.
C3_Witness ==
  /\ returned
  /\ lang = "Français"
  /\ results[1][2].label = Sentinel(Aspects[1][2])
  /\ results[2][2].label = Sentinel(Aspects[2][2])

\* The sentiment a candidate label stands for, by its place in the list.
ExpectedSentiment(k) ==
  IF lang = "English" THEN << "Positive", "Negative", "Neutral" >>[k]
  ELSE << "Positif", "Négatif", "Neutre" >>[k]

\* C4: when the classifier returns as top label a candidate L other than
\* the "not mentioned" one, with score s, the theme's result has
\* is_detected = true, the sentiment the theme's mapping assigns to L, and
\* score exactly s, the first of the returned scores.
C4_SentimentLabelResolved ==
  \A i \in 1..Len(Res) :
    LET data == Aspects[i][2]
        L    == outputs[i].labels[1]
    IN  \A k \in 1..(Len(data.labels) - 1) :
          L = data.labels[k] =>
            /\ Res[i][2].label = L
            /\ Res[i][2].is_detected
            /\ Res[i][2].sentiment = data.mapping[L][1]
            /\ Res[i][2].sentiment = ExpectedSentiment(k)
            /\ Res[i][2].score = outputs[i].scores[1]

\* A returned analysis in which a theme resolved to "dissatisfied" with the
\* highest score and another to "neutral" with the lowest.
C4_Witness ==
  /\ returned
  /\ \E i \in 1..Len(results) :
       /\ outputs[i].labels[1] = Aspects[i][2].labels[2]
       /\ outputs[i].scores[1] = 2
  /\ \E i \in 1..Len(results) :
       /\ outputs[i].labels[1] = Aspects[i][2].labels[3]
       /\ outputs[i].scores[1] = 1

\* Every candidate label of CONFIG is a key of its aspect's mapping.
ConfigTotal ==
  \A l \in DOMAIN CONFIG :
    \A a \in 1..Len(CONFIG[l].aspects) :
      \A k \in 1..Len(CONFIG[l].aspects[a][2].labels) :
        CONFIG[l].aspects[a][2].labels[k]
          \in DOMAIN CONFIG[l].aspects[a][2].mapping

\* C5: in every language and theme, every candidate label passed to the
\* classifier is a key of the theme's mapping, so resolving a label taken
\* from the passed candidates never fails.
C5_MappingTotal ==
  /\ ConfigTotal
  /\ (outputs # <<>> /\ exception = "KeyError") =>
       TopLabel(outputs[Len(outputs)])
         \notin Range(Aspects[Len(outputs)][2].labels)

\* A returned analysis whose three top labels were candidates, the last of
\* them the "not mentioned" one.
C5_Witness ==
  /\ returned
  /\ \A i \in 1..Len(results) :
       outputs[i].labels[1] \in Range(Aspects[i][2].labels)
  /\ outputs[3].labels[1] = Sentinel(Aspects[3][2])

\* C6: when the classifier's top label is not in the current theme's label
\* set, the analysis ends with an error: no verdict is made up for the
\* label, and no result list, not even the results of the themes already
\* processed, is returned or rendered.
C6_ForeignLabelFails ==
  /\ (outputs # <<>> /\
      TopLabel(outputs[Len(outputs)])
        \notin Range(Aspects[Len(outputs)][2].labels)) =>
       /\ exception = "KeyError"
       /\ pc = "crashed"
       /\ ~ returned
       /\ results = <<>>
       /\ cards = <<>>
  /\ \A i \in 1..Len(Res) : Res[i][2].label \in Range(Aspects[i][2].labels)

\* The third theme's label was foreign, after two themes were processed.
C6_Witness ==
  /\ exception = "KeyError"
  /\ Len(outputs) = 3
  /\ TopLabel(outputs[3]) = ForeignLabel
  /\ results = <<>>

\* C7: when loading the model fails, the failure is reported and the
\* script run stops: in that run analyze_aspects is never invoked and no
\* card is rendered, whatever the button and the text.
C7_LoadFailureStopsRun ==
  load_error =>
    /\ pc = "stopped"
    /\ classifier = 0
    /\ calls = 0
    /\ ~ returned
    /\ cards = <<>>

\* A failed load in a run started by a press of the button on a review.
C7_Witness ==
  /\ load_error
  /\ button
  /\ ~ WhitespaceOnly(input_text)
  /\ pc = "stopped"

\* C8: a failure of the classifier call or of the label lookup during an
\* analysis never ends the run in an unhandled exception.
C8_FailuresHandled ==
  calls > 0 => (exception = "none" /\ pc # "crashed")

\* C9: with a deterministic classifier, every completed analysis of the
\* same text under the same language returns what the first one returned,
\* whatever was analysed or selected in between.
C9_Idempotent ==
  (returned /\ Key = tracked) => results = first

\* The second analysis of the tracked text, after another analysis or a
\* language switch.
C9_Witness ==
  /\ returned
  /\ Key = tracked
  /\ runs = 2
  /\ between
  /\ results = first

\* C10: the pipeline is constructed at most once; every analysis uses that
\* one instance; once it is cached no load is attempted again (an attempt
\* would construct a second instance or fail with the cache filled).
C10_ModelLoadedOnce ==
  /\ constructed <= 1
  /\ cache = constructed
  /\ used \subseteq { 1 }
  /\ classifier \in { 0, cache }
  /\ calls > 0 => classifier = 1
  /\ load_error => cache = 0

\* An analysis starts in a later rerun with the instance that an earlier
\* rerun's analysis used.
C10_Witness ==
  /\ pc = "loop"
  /\ calls = 0
  /\ classifier # 0
  /\ used = { classifier }

====
